---- MODULE Spec2Model ----
(***************************************************************************)
(* mdi: reflection-based dependency container (di.go, provider.go,         *)
(* provider_option.go).  Containers form a parent chain; every container   *)
(* maps a type to one provider; Invoke resolves the parameters of a        *)
(* function from the container and its ancestors and calls it.             *)
(*                                                                         *)
(* In Spec, SpecReg and SpecChain, Provide and Invoke are whole handlers:   *)
(* one step of the model is one call made by a single caller (a sequential *)
(* run).  In SpecConc the callers are goroutines that run the same code    *)
(* statement by statement, one step for every access to shared memory and  *)
(* every lock operation.                                                   *)
(***************************************************************************)
EXTENDS Integers, Sequences, FiniteSets, TLC

\* Bounds of the model.
MaxRegs == 3          \* containers created by New / NewFrom
MaxProviders == 2     \* Provide is offered while fewer providers are bound
MaxResolutions == 4   \* Invoke is offered while fewer resolutions were made
MaxCalls == 3         \* Invoke is offered while the factories ran less often
MaxLen == 2           \* length of the longest provided sequence
NumProcs == 2         \* goroutines of a concurrent run
MaxOps == 3           \* calls of Provide and Invoke started in a concurrent run

VARIABLES
    dis,      \* the containers: dis[d] = [parent, provide]
    ncalls,   \* ncalls[f]: how often the body of user function f has run
    nres,     \* nres[<<d, t>>]: successful resolutions of d's provider of t by invokeParam
    last,     \* what the caller of the last New / Provide / Invoke observed
    threads,  \* threads[g]: the call stack of goroutine g and what its call observed
    provideMutex,  \* provideMutex[d]: the RWMutex of container d's map
    mutex     \* mutex[<<d, t>>]: the RWMutex of the provider d binds under t

vars == <<dis, ncalls, nres, last, threads, provideMutex, mutex>>

-----------------------------------------------------------------------------
(* Types and values.  A reflect.Value is [typ, elems]: a scalar holds one  *)
(* element, a slice its elements, the zero reflect.Value is Invalid.       *)

Types == {"int", "string", "[]int", "error", "*DI"}

Invalid == [typ |-> "invalid", elems |-> <<>>]

IsValid(v) == v.typ # "invalid"

IntV(n) == [typ |-> "int", elems |-> <<n>>]
StrV(n) == [typ |-> "string", elems |-> <<n>>]
SeqV(base, n) == [typ |-> "[]int", elems |-> [i \in 1..n |-> base + i]]
DIV(d) == [typ |-> "*DI", elems |-> <<d>>]
\* a result of type error: nil (no element) or non-nil
ErrV(failed) == [typ |-> "error", elems |-> IF failed THEN <<1>> ELSE <<>>]

\* cache.Index(i), i counted from 0
Index(v, i) == [typ |-> "int", elems |-> <<v.elems[i + 1]>>]

(* Errors.  An error is the chain of its wrapping layers, outermost first; *)
(* nil is the empty chain.  fmt.Errorf with %w puts a layer in front.      *)
NoErr == <<>>
Layer(kind, pos, typ) == [kind |-> kind, pos |-> pos, typ |-> typ]
\* errTest of the tests: the error value a failing user function returns
ErrTest(f) == <<Layer("errTest", 0, f)>>
\* a run-time panic (index out of range) unwinds the whole call
Panic == <<Layer("panic", 0, "")>>
IsPanic(err) == err = Panic

newErrorProviderAlreadyExists(pType) == <<Layer("AlreadyExists", 0, pType)>>

newErrorProviderCantRoundRobin(pType) == <<Layer("CantRoundRobin", 0, pType)>>

\* isTypeErr that recognises no type
isTypeErrNever(vType) == FALSE

isTypeErr(vType) == vType = "error"

\* elementType: <<element type, ok>>
elementType(vType) ==
    IF vType = "[]int" THEN <<"int", TRUE>> ELSE <<vType, FALSE>>

-----------------------------------------------------------------------------
(* The user functions: factories given to Provide and targets given to     *)
(* Invoke, each with its parameter types, its result types and its body.   *)

Factories == {"FInt", "FSeq", "FPair", "FNone", "FErr", "FStr", "FMix"}
Targets == {"T0", "TInt", "TInt3", "TStr", "TIntStr", "TStrInt", "TErr", "TSeq"}
\* the factories whose error result may be non-nil
Failing == {"FInt", "FSeq"}
\* the functions whose body calls Provide on the container they run for
Reentrant == {"FReg"}

FuncIn(f) ==
    CASE f = "FStr" -> <<"int">>
      [] f = "TInt" -> <<"int">>
      [] f = "TInt3" -> <<"int", "int", "int">>
      [] f = "TStr" -> <<"string">>
      [] f = "TIntStr" -> <<"int", "string">>
      [] f = "TStrInt" -> <<"string", "int">>
      [] f = "TErr" -> <<"error">>
      [] f = "TSeq" -> <<"[]int">>
      [] OTHER -> <<>>

FuncOut(f) ==
    CASE f = "FInt" -> <<"int", "error">>
      [] f = "FSeq" -> <<"[]int", "error">>
      [] f = "FPair" -> <<"int", "int">>
      [] f = "FErr" -> <<"error">>
      [] f = "FStr" -> <<"string">>
      [] f = "FMix" -> <<"[]int", "string">>
      [] f = "FReg" -> <<"int">>
      [] OTHER -> <<>>

\* The results of the c-th run of f on params; fails: the functions whose
\* error result is non-nil in this call.  Every run computes fresh values.
Body(f, params, c, fails) ==
    CASE f = "FInt" -> <<IntV(c), ErrV(f \in fails)>>
      [] f = "FSeq" -> <<SeqV(10 * c, MaxLen), ErrV(f \in fails)>>
      [] f = "FPair" -> <<IntV(c), IntV(100 + c)>>
      [] f = "FErr" -> <<ErrV(f \in fails)>>
      [] f = "FStr" -> <<StrV(params[1].elems[1])>>
      [] f = "FMix" -> <<SeqV(10 * c, MaxLen), StrV(c)>>
      [] f = "FReg" -> <<IntV(c)>>
      [] OTHER -> <<>>

-----------------------------------------------------------------------------
(* Providers (provider.go).  A provider lives in a container's map and is  *)
(* named by <<d, t>>: the container and the key it is bound under.  The    *)
(* invoker closure is a tag; its body is the invoker* operator of the tag. *)

newProviderFromOptions(options) ==
    [eagerLoading |-> "WithEagerLoading" \in options,
     disableCache |-> "WithMultiInstance" \in options,
     useRoundRobin |-> "WithRoundRobin" \in options,
     roundRobinIndex |-> 0,
     cache |-> Invalid,
     invoker |-> "nil",
     function |-> "nil",
     functionParamIndex |-> 0]

setStrategyByValue(p, pValue) ==
    [p EXCEPT !.cache = pValue, !.invoker = "ByValue"]

setStrategyByValueRoundRobin(p, pValue) ==
    [p EXCEPT !.roundRobinIndex = -1, !.cache = pValue,
              !.invoker = "ByValueRoundRobin"]

setStrategyByFunctionValue(p, function, index) ==
    [p EXCEPT !.function = function, !.functionParamIndex = index,
              !.invoker = "ByFunctionValue"]

setStrategyByFunctionValueRoundRobin(p, function, index) ==
    [p EXCEPT !.function = function, !.functionParamIndex = index,
              !.roundRobinIndex = -1, !.invoker = "ByFunctionValueRoundRobin"]

\* getCacheOrFunction: <<cache, function>>
getCacheOrFunction(p) ==
    IF p.disableCache THEN <<Invalid, p.function>> ELSE <<p.cache, p.function>>

\* setCache that stores nothing
setCacheDropped(p, data) == p

setCache(p, data) ==
    IF p.disableCache THEN p
    ELSE [p EXCEPT !.cache = data, !.function = "nil"]

\* the cursor taken back to 0 one element early
nextRoundRobinIndexEarly(index, len) ==
    IF index + 1 >= len - 1 THEN 0 ELSE index + 1

\* roundRobinIndex++, back to 0 when it reaches the length
nextRoundRobinIndex(index, len) ==
    IF index + 1 >= len THEN 0 ELSE index + 1

-----------------------------------------------------------------------------
(* sync.RWMutex, as the code uses it: the goroutine that holds it for      *)
(* writing (0: none), those that hold it for reading and those blocked in  *)
(* Lock.  A goroutine blocked in Lock keeps new readers out.               *)

Procs == 1..NumProcs

NewMutex == [writer |-> 0, readers |-> {}, waiting |-> {}]

\* RLock returns
CanRLock(mu) == mu.writer = 0 /\ mu.waiting = {}
RLock(mu, g) == [mu EXCEPT !.readers = @ \cup {g}]

\* RUnlock that releases nothing
RUnlockNever(mu, g) == mu

RUnlock(mu, g) == [mu EXCEPT !.readers = @ \ {g}]

\* Lock is called, and returns
LockWait(mu, g) == [mu EXCEPT !.waiting = @ \cup {g}]
CanLock(mu) == mu.writer = 0 /\ mu.readers = {}
Lock(mu, g) == [mu EXCEPT !.writer = g, !.waiting = @ \ {g}]

Unlock(mu, g) == [mu EXCEPT !.writer = 0]

\* g holds mu or is blocked in it
Holds(mu, g) == mu.writer = g \/ g \in mu.readers \/ g \in mu.waiting

-----------------------------------------------------------------------------
(* The state a call works on: the containers, the counters and the log of  *)
(* what the call did.  Log entries:                                        *)
(*   "lookup"  getProvider of type t in container d, ok: found             *)
(*   "resolve" d's provider of t was asked for parameter i (from 1) of a   *)
(*             function at nesting depth n; v: the value, ok: no error     *)
(*   "call"    the body of f ran for the i-th time, ok: no non-nil error   *)

Event(ev, d, t, f, i, n, v, ok) ==
    [ev |-> ev, d |-> d, t |-> t, f |-> f, i |-> i, n |-> n, v |-> v, ok |-> ok]

Logged(st, e) == [st EXCEPT !.log = Append(@, e)]

Provider(st, d, t) == st.dis[d].provide[t]

SetProvider(st, d, t, p) ==
    [st EXCEPT !.dis[d].provide = [k \in DOMAIN @ |-> IF k = t THEN p ELSE @[k]]]

\* getProvider: is t bound in d's own map
getProvider(st, d, pType) == pType \in DOMAIN st.dis[d].provide

\* functionCall that does not look at the results of type error
functionCallUnchecked(st, fValue, params, fails) ==
    LET c == IF fValue \in Factories THEN st.ncalls[fValue] + 1 ELSE 0
        results == Body(fValue, params, c, fails)
        bad == {k \in 1..Len(results) :
                    isTypeErr(results[k].typ) /\ results[k].elems # <<>>}
        st1 == IF fValue \in Factories
               THEN [st EXCEPT !.ncalls[fValue] = c] ELSE st
        st2 == Logged(st1, Event("call", 0, "", fValue, c, st.depth, Invalid, bad = {}))
    IN  [st |-> st2, vals |-> results, err |-> NoErr, called |-> TRUE]

\* functionCall: run the body, then look for a non-nil result of type error
functionCall(st, fValue, params, fails) ==
    LET c == IF fValue \in Factories THEN st.ncalls[fValue] + 1 ELSE 0
        results == Body(fValue, params, c, fails)
        bad == {k \in 1..Len(results) :
                    isTypeErr(results[k].typ) /\ results[k].elems # <<>>}
        st1 == IF fValue \in Factories
               THEN [st EXCEPT !.ncalls[fValue] = c] ELSE st
        st2 == Logged(st1, Event("call", 0, "", fValue, c, st.depth, Invalid, bad = {}))
    IN  IF bad # {}
        THEN [st |-> st2, vals |-> <<>>, err |-> ErrTest(fValue), called |-> TRUE]
        ELSE [st |-> st2, vals |-> results, err |-> NoErr, called |-> TRUE]

\* the nearest of d and its ancestors that binds t in the containers D, or 0
RECURSIVE Owner(_, _, _)
Owner(D, d, t) ==
    IF d = 0 THEN 0
    ELSE IF t \in DOMAIN D[d].provide THEN d
    ELSE Owner(D, D[d].parent, t)

\* the error of invokeParam with the position counted from 0
errorProviderNotFoundFromZero(i, param) == <<Layer("NotFound", i, param)>>

\* the error of invokeParam for parameter i (from 0) that nobody provides
errorProviderNotFound(i, param) == <<Layer("NotFound", i + 1, param)>>

RECURSIVE invoke(_, _, _, _)
RECURSIVE invokeLoop(_, _, _, _, _, _)
RECURSIVE invokeParam(_, _, _, _, _)
RECURSIVE provide(_, _, _, _, _)

\* the invoker of setStrategyByValue
invokerByValue(st, d, t, di, fails) ==
    [st |-> st, val |-> Provider(st, d, t).cache, err |-> NoErr]

\* the cursor advance and the Index shared by the two round-robin invokers
roundRobin(st, d, t, result) ==
    LET iP == Provider(st, d, t)
        index == nextRoundRobinIndex(iP.roundRobinIndex, Len(result.elems))
        st1 == SetProvider(st, d, t, [iP EXCEPT !.roundRobinIndex = index])
    IN  IF index >= Len(result.elems)
        THEN [st |-> st1, val |-> Invalid, err |-> Panic]
        ELSE [st |-> st1, val |-> Index(result, index), err |-> NoErr]

\* the invoker of setStrategyByValueRoundRobin
invokerByValueRoundRobin(st, d, t, di, fails) ==
    roundRobin(st, d, t, Provider(st, d, t).cache)

\* invokedToCache that drops the function when di.invoke failed
invokedToCacheForgetting(d, t, index, result, r) ==
    IF r.err # NoErr
    THEN [st |-> SetProvider(r.st, d, t, [Provider(r.st, d, t) EXCEPT !.function = "nil"]),
          val |-> result, err |-> r.err]
    ELSE [st |-> SetProvider(r.st, d, t, setCache(Provider(r.st, d, t), r.vals[index + 1])),
          val |-> r.vals[index + 1], err |-> NoErr]

\* the second half of cachedOrInvoked: r is what di.invoke returned
invokedToCache(d, t, index, result, r) ==
    IF r.err # NoErr
    THEN [st |-> r.st, val |-> result, err |-> r.err]
    ELSE [st |-> SetProvider(r.st, d, t, setCache(Provider(r.st, d, t), r.vals[index + 1])),
          val |-> r.vals[index + 1], err |-> NoErr]

\* cachedOrInvoked that runs the function on the container the call began in
cachedOrInvokedFromCaller(st, d, t, di, fails) ==
    LET cf == getCacheOrFunction(Provider(st, d, t))
    IN  IF IsValid(cf[1])
        THEN [st |-> st, val |-> cf[1], err |-> NoErr]
        ELSE invokedToCache(d, t, Provider(st, d, t).functionParamIndex, cf[1],
                            invoke(st, IF st.log # <<>> THEN st.log[1].d ELSE di,
                                   cf[2], fails))

\* the first half of the two function invokers: the cached result, or a
\* run of the function through di.invoke and setCache
cachedOrInvoked(st, d, t, di, fails) ==
    LET cf == getCacheOrFunction(Provider(st, d, t))
    IN  IF IsValid(cf[1])
        THEN [st |-> st, val |-> cf[1], err |-> NoErr]
        ELSE invokedToCache(d, t, Provider(st, d, t).functionParamIndex, cf[1],
                            invoke(st, di, cf[2], fails))

\* the invoker of setStrategyByFunctionValue
invokerByFunctionValue(st, d, t, di, fails) ==
    cachedOrInvoked(st, d, t, di, fails)

\* the second half of the round-robin function invoker: r is the result
thenRoundRobin(d, t, r) ==
    IF r.err # NoErr THEN r ELSE roundRobin(r.st, d, t, r.val)

\* the invoker of setStrategyByFunctionValueRoundRobin
invokerByFunctionValueRoundRobin(st, d, t, di, fails) ==
    thenRoundRobin(d, t, cachedOrInvoked(st, d, t, di, fails))

\* provider.provide: p is d's provider of t, di the container handed to it
provide(st, d, t, di, fails) ==
    LET tag == Provider(st, d, t).invoker
    IN  CASE tag = "ByValue" -> invokerByValue(st, d, t, di, fails)
          [] tag = "ByValueRoundRobin" -> invokerByValueRoundRobin(st, d, t, di, fails)
          [] tag = "ByFunctionValue" -> invokerByFunctionValue(st, d, t, di, fails)
          [] tag = "ByFunctionValueRoundRobin" ->
                invokerByFunctionValueRoundRobin(st, d, t, di, fails)

\* the end of invokeParam: r is what d's provider of param returned for
\* parameter i (from 0) of a function at nesting depth n
paramProvided(d, param, i, n, r) ==
    IF r.err # NoErr
    THEN [st |-> Logged(r.st, Event("resolve", d, param, "", i + 1, n, r.val, FALSE)),
          val |-> Invalid,
          err |-> IF IsPanic(r.err) THEN r.err
                  ELSE <<Layer("FailedToProvide", i + 1, param)>> \o r.err]
    ELSE [st |-> [Logged(r.st, Event("resolve", d, param, "", i + 1, n, r.val, TRUE))
                     EXCEPT !.nres[<<d, param>>] = @ + 1],
          val |-> r.val, err |-> NoErr]

\* the lookup entry of invokeParam
LookedFor(st, d, param, i) ==
    Logged(st, Event("lookup", d, param, "", i + 1, st.depth, Invalid,
                     getProvider(st, d, param)))

\* invokeParam that asks the ancestors before d's own map
invokeParamAncestorsFirst(st, d, param, i, fails) ==
    IF st.dis[d].parent # 0 /\ Owner(st.dis, st.dis[d].parent, param) # 0
    THEN invokeParam(st, st.dis[d].parent, param, i, fails)
    ELSE IF ~getProvider(st, d, param)
    THEN [st |-> LookedFor(st, d, param, i), val |-> Invalid,
          err |-> errorProviderNotFound(i, param)]
    ELSE paramProvided(d, param, i, st.depth,
                       provide(LookedFor(st, d, param, i), d, param, d, fails))

\* invokeParam: one parameter, from d's map or from its ancestors'
invokeParam(st, d, param, i, fails) ==
    IF ~getProvider(st, d, param)
    THEN IF st.dis[d].parent # 0
         THEN invokeParam(LookedFor(st, d, param, i), st.dis[d].parent, param, i, fails)
         ELSE [st |-> LookedFor(st, d, param, i), val |-> Invalid,
               err |-> errorProviderNotFound(i, param)]
    ELSE paramProvided(d, param, i, st.depth,
                       provide(LookedFor(st, d, param, i), d, param, d, fails))

\* the error err returned after one more parameter was asked for
failedAfter(err, r) == [st |-> r.st, vals |-> <<>>, err |-> err, called |-> FALSE]

\* invokeNext that asks for the parameter after the one that failed
invokeNextResolvingRest(d, function, i, paramValues, fails, r) ==
    IF r.err # NoErr
    THEN IF i + 1 < Len(FuncIn(function))
         THEN failedAfter(r.err, invokeParam(r.st, d, FuncIn(function)[i + 2], i + 1, fails))
         ELSE [st |-> r.st, vals |-> <<>>, err |-> r.err, called |-> FALSE]
    ELSE invokeLoop(r.st, d, function, i + 1, Append(paramValues, r.val), fails)

\* one turn of the parameter loop: r is what invokeParam returned
invokeNext(d, function, i, paramValues, fails, r) ==
    IF r.err # NoErr
    THEN [st |-> r.st, vals |-> <<>>, err |-> r.err, called |-> FALSE]
    ELSE invokeLoop(r.st, d, function, i + 1, Append(paramValues, r.val), fails)

\* the parameter loop of invoke, from parameter i (from 0), then the call
invokeLoop(st, d, function, i, paramValues, fails) ==
    IF i >= Len(FuncIn(function))
    THEN functionCall(st, function, paramValues, fails)
    ELSE invokeNext(d, function, i, paramValues, fails,
                    invokeParam(st, d, FuncIn(function)[i + 1], i, fails))

\* leaving invoke: back at the caller's nesting depth
returned(n, r) == [r EXCEPT !.st.depth = n]

\* invoke: call function with its parameters provided from d
invoke(st, d, function, fails) ==
    IF function \notin Factories \cup Targets
    THEN [st |-> st, vals |-> <<>>, err |-> <<Layer("NonFunction", 0, "")>>,
          called |-> FALSE]
    ELSE returned(st.depth, invokeLoop([st EXCEPT !.depth = @ + 1], d, function, 0,
                                       <<>>, fails))

-----------------------------------------------------------------------------
(* Registration (di.go).                                                   *)

\* addProvider that replaces the provider of a bound type
addProviderOverwriting(st, d, pType, p) ==
    [st |-> [st EXCEPT !.dis[d].provide =
                [k \in DOMAIN @ \cup {pType} |-> IF k = pType THEN p ELSE @[k]]],
     err |-> NoErr]

\* addProvider: bind pType to p in d unless pType is bound
addProvider(st, d, pType, p) ==
    IF pType \in DOMAIN st.dis[d].provide
    THEN [st |-> st, err |-> newErrorProviderAlreadyExists(pType)]
    ELSE [st |-> [st EXCEPT !.dis[d].provide =
                      [k \in DOMAIN @ \cup {pType} |-> IF k = pType THEN p ELSE @[k]]],
          err |-> NoErr]

\* canAddProvider: <<ok, err>>
canAddProvider(st, d, pType) ==
    IF isTypeErr(pType) THEN <<FALSE, NoErr>>
    ELSE IF getProvider(st, d, pType)
         THEN <<FALSE, newErrorProviderAlreadyExists(pType)>>
         ELSE <<TRUE, NoErr>>

\* provideValue: add a value provider to d
provideValue(st, d, pValue, options) ==
    LET pType == pValue.typ
        can == canAddProvider(st, d, pType)
        p == newProviderFromOptions(options)
        e == elementType(pType)
    IN  IF can[2] # NoErr THEN [st |-> st, err |-> can[2]]
        ELSE IF ~can[1]
        THEN [st |-> st, err |-> <<Layer("CantProvideValue", 0, pType)>>]
        ELSE IF p.useRoundRobin
        THEN IF e[2]
             THEN addProvider(st, d, e[1], setStrategyByValueRoundRobin(p, pValue))
             ELSE [st |-> st, err |-> newErrorProviderCantRoundRobin(pType)]
        ELSE addProvider(st, d, pType, setStrategyByValue(p, pValue))

\* the end of the eager load without the cursor taken back
eagerLoadedNoRewind(d, key, pType, r) ==
    IF r.err # NoErr
    THEN [st |-> r.st,
          err |-> IF IsPanic(r.err) THEN r.err
                  ELSE <<Layer("EagerLoad", 0, pType)>> \o r.err]
    ELSE [st |-> r.st, err |-> NoErr]

\* the end of the eager load: r is what p.provide returned; the cursor of a
\* round-robin provider is taken back by one
eagerLoaded(d, key, pType, r) ==
    IF r.err # NoErr
    THEN [st |-> r.st,
          err |-> IF IsPanic(r.err) THEN r.err
                  ELSE <<Layer("EagerLoad", 0, pType)>> \o r.err]
    ELSE IF Provider(r.st, d, key).useRoundRobin
    THEN [st |-> SetProvider(r.st, d, key,
                     [Provider(r.st, d, key) EXCEPT !.roundRobinIndex = @ - 1]),
          err |-> NoErr]
    ELSE [st |-> r.st, err |-> NoErr]

\* the eager load at the end of provideFunctionValue
eagerLoad(st, d, key, pType, fails) ==
    eagerLoaded(d, key, pType, provide(st, d, key, d, fails))

\* provideFunctionValue that never loads eagerly
provideFunctionValueLazy(st, d, function, pType, index, options, fails) ==
    LET can == canAddProvider(st, d, pType)
        p == newProviderFromOptions(options)
        e == elementType(pType)
        added == IF p.useRoundRobin
                 THEN IF e[2]
                      THEN addProvider(st, d, e[1],
                               setStrategyByFunctionValueRoundRobin(p, function, index))
                      ELSE [st |-> st, err |-> newErrorProviderCantRoundRobin(pType)]
                 ELSE addProvider(st, d, pType,
                          setStrategyByFunctionValue(p, function, index))
    IN  IF can[2] # NoErr THEN [st |-> st, err |-> can[2]]
        ELSE IF ~can[1] THEN [st |-> st, err |-> NoErr]
        ELSE added

\* provideFunctionValue: add the provider of result index (from 0) of function
provideFunctionValue(st, d, function, pType, index, options, fails) ==
    LET can == canAddProvider(st, d, pType)
        p == newProviderFromOptions(options)
        e == elementType(pType)
        key == IF p.useRoundRobin THEN e[1] ELSE pType
        added == IF p.useRoundRobin
                 THEN IF e[2]
                      THEN addProvider(st, d, e[1],
                               setStrategyByFunctionValueRoundRobin(p, function, index))
                      ELSE [st |-> st, err |-> newErrorProviderCantRoundRobin(pType)]
                 ELSE addProvider(st, d, pType,
                          setStrategyByFunctionValue(p, function, index))
    IN  IF can[2] # NoErr THEN [st |-> st, err |-> can[2]]
        ELSE IF ~can[1] THEN [st |-> st, err |-> NoErr]
        ELSE IF added.err # NoErr THEN added
        ELSE IF p.eagerLoading THEN eagerLoad(added.st, d, key, pType, fails)
        ELSE added

RECURSIVE provideFunctionLoop(_, _, _, _, _, _, _)
\* one turn of the loop of provideFunction: r is what provideFunctionValue
\* returned for result i
provideNext(d, function, i, options, fails, r) ==
    IF r.err # NoErr THEN r
    ELSE provideFunctionLoop(r.st, d, function, i + 1, TRUE, options, fails)

\* the loop of provideFunction over the results of function, from result i
provideFunctionLoop(st, d, function, i, provided, options, fails) ==
    IF i >= Len(FuncOut(function))
    THEN IF ~provided
         THEN [st |-> st, err |-> <<Layer("NoReturnValues", 0, "")>>]
         ELSE [st |-> st, err |-> NoErr]
    ELSE provideNext(d, function, i, options, fails,
                     provideFunctionValue(st, d, function, FuncOut(function)[i + 1], i,
                                          options, fails))

\* provideFunction: add the providers of a function's results to d
provideFunction(st, d, function, options, fails) ==
    provideFunctionLoop(st, d, function, 0, FALSE, options, fails)

-----------------------------------------------------------------------------
(* The public operations, each one step of a caller.                       *)

\* what Provide and Invoke are given: a plain value or a function
ArgValue(v) == [kind |-> "value", f |-> "", v |-> v]
ArgFunc(f) == [kind |-> "func", f |-> f, v |-> Invalid]

Options == {"WithEagerLoading", "WithMultiInstance", "WithRoundRobin"}

Start(s) == [dis |-> s[1], ncalls |-> s[2], nres |-> s[3], log |-> <<>>, depth |-> 0]

\* a goroutine that runs no call: its stack is empty; op, arg, options are
\* its last call, err what that returned, vals the parameters the function
\* given to Invoke was called with, picks the <<cursor it advanced to, index
\* it read, length of the sequence>> of its round-robin resolutions, n the
\* calls it has started
IdleThread ==
    [stack |-> <<>>, n |-> 0, op |-> "", arg |-> ArgValue(Invalid), options |-> {},
     err |-> NoErr, vals |-> <<>>, picks |-> <<>>]

\* the values the called function got: those of the "resolve" entries of its
\* own parameters (nesting depth 1)
ParamValues(function, log) ==
    [k \in 1..Len(FuncIn(function)) |->
        log[CHOOSE j \in 1..Len(log) :
                log[j].ev = "resolve" /\ log[j].n = 1 /\ log[j].i = k].v]

Observed(op, d, arg, options, fails, r, pre) ==
    [op |-> op, d |-> d, arg |-> arg, options |-> options, fails |-> fails,
     err |-> r.err, log |-> r.st.log,
     pre |-> IF op = "New" THEN Append(pre, [parent |-> 0, provide |-> <<>>]) ELSE pre,
     called |-> IF op = "Invoke" THEN r.called ELSE FALSE,
     vals |-> IF op = "Invoke" /\ r.called THEN ParamValues(arg.f, r.st.log)
              ELSE <<>>]

Init ==
    /\ dis = <<[parent |-> 0, provide |-> [t \in {"*DI"} |->
                    setStrategyByValue(newProviderFromOptions({}), DIV(1))]]>>
    /\ ncalls = [f \in Factories |-> 0]
    /\ nres = [k \in (1..MaxRegs) \X Types |-> 0]
    /\ last = [op |-> "New", d |-> 1, arg |-> ArgValue(Invalid), options |-> {},
               fails |-> {}, err |-> NoErr, log |-> <<>>, pre |-> <<>>,
               called |-> FALSE, vals |-> <<>>]
    /\ threads = [g \in Procs |-> IdleThread]
    /\ provideMutex = [d \in 1..MaxRegs |-> NewMutex]
    /\ mutex = [k \in (1..MaxRegs) \X Types |-> NewMutex]

\* the call returns r: the state it leaves and what the caller observes
Return(op, d, arg, options, fails, r) ==
    /\ dis' = r.st.dis
    /\ ncalls' = r.st.ncalls
    /\ nres' = r.st.nres
    /\ last' = Observed(op, d, arg, options, fails, r, dis)
    /\ UNCHANGED <<threads, provideMutex, mutex>>

\* NewFrom(parent): a new container that provides itself
NewFrom(parent) ==
    Return("New", Len(dis) + 1, ArgValue(Invalid), {}, {},
           provideValue(Start(<<Append(dis, [parent |-> parent, provide |-> <<>>]),
                                ncalls, nres>>),
                        Len(dis) + 1, DIV(Len(dis) + 1), {}))

\* d.Provide(provide, options...)
Provide(d, arg, options, fails) ==
    Return("Provide", d, arg, options, fails,
           IF arg.kind = "func"
           THEN provideFunction(Start(<<dis, ncalls, nres>>), d, arg.f, options, fails)
           ELSE provideValue(Start(<<dis, ncalls, nres>>), d, arg.v, options))

\* d.Invoke(function)
Invoke(d, arg, fails) ==
    Return("Invoke", d, arg, {}, fails,
           invoke(Start(<<dis, ncalls, nres>>), d,
                  IF arg.kind = "func" THEN arg.f ELSE "", fails))

-----------------------------------------------------------------------------
(* Specifications: the same operations over different inputs.              *)

Sum(fn) ==
    LET RECURSIVE S(_)
        S(D) == IF D = {} THEN 0
                ELSE LET x == CHOOSE x \in D : TRUE IN fn[x] + S(D \ {x})
    IN  S(DOMAIN fn)

\* the providers bound by Provide (every container also provides itself)
NumProviders == Sum([d \in 1..Len(dis) |-> Cardinality(DOMAIN dis[d].provide) - 1])

MayProvide == NumProviders < MaxProviders
MayInvoke == Sum(nres) < MaxResolutions /\ Sum(ncalls) < MaxCalls

\* either every function that can fail fails in a call, or none does
FailSets == {{}, Failing}

\* Spec: the provider strategies, on one container
StrategyArgs ==
    {ArgValue(SeqV(0, n)) : n \in 1..MaxLen}
    \cup {ArgFunc(f) : f \in {"FInt", "FSeq", "FStr"}}
StrategyTargets ==
    {ArgFunc(f) : f \in {"TInt", "TInt3", "TStr", "TStrInt"}}

Next ==
    \/ \E arg \in StrategyArgs, options \in SUBSET Options, fails \in FailSets :
          MayProvide /\ Provide(1, arg, options, fails)
    \/ \E arg \in StrategyTargets, fails \in FailSets :
          MayInvoke /\ Invoke(1, arg, fails)

Spec == Init /\ [][Next]_vars

\* SpecReg: registration of every kind of value and function, with every
\* set of options, in a container and its child
RegArgs ==
    {ArgValue(IntV(1)), ArgValue(SeqV(0, MaxLen))} \cup {ArgFunc(f) : f \in Factories}
RegTargets == {ArgFunc("TErr")}

NextReg ==
    \/ \E parent \in 1..Len(dis) : Len(dis) < MaxRegs - 1 /\ NewFrom(parent)
    \/ \E d \in 1..Len(dis), arg \in RegArgs, options \in SUBSET Options :
          MayProvide /\ Provide(d, arg, options, {})
    \/ \E d \in 1..Len(dis), arg \in RegTargets :
          MayInvoke /\ Invoke(d, arg, {})

SpecReg == Init /\ [][NextReg]_vars

\* SpecChain: lookup through a chain of containers
ChainArgs == {ArgValue(IntV(1)), ArgValue(IntV(2)), ArgFunc("FStr")}
ChainTargets ==
    {ArgFunc(f) : f \in {"TInt", "TStr", "TIntStr", "TStrInt"}} \cup {ArgValue(StrV(1))}

NextChain ==
    \/ \E parent \in 1..Len(dis) : Len(dis) < MaxRegs /\ NewFrom(parent)
    \/ \E d \in 1..Len(dis), arg \in ChainArgs :
          NumProviders < MaxProviders + 1 /\ Provide(d, arg, {}, {})
    \/ \E d \in 1..Len(dis), arg \in ChainTargets :
          MayInvoke /\ Invoke(d, arg, {})

SpecChain == Init /\ [][NextChain]_vars

-----------------------------------------------------------------------------
(* Concurrent callers.  A goroutine's stack holds a frame for every call   *)
(* of Provide, invoke and provider.provide in progress; the frame on top   *)
(* runs.  pc names the statement a frame is at.  The fields of a frame:    *)
(*   d        the container the call is made on (provide: the owner, and   *)
(*            the di handed to the invoker)                                *)
(*   at       the container getProvider is asked in                        *)
(*   t        Provide: the result type at hand; invoke: the parameter type *)
(*            at hand; provide: the key of the provider                    *)
(*   key      Provide: the type the provider is bound under                *)
(*   f, v     the function and the value at hand                           *)
(*   i, vals  the loop index and the values collected                      *)
(*   ok, err  what getProvider and addProvider returned                    *)
(*   adv      the cursor loaded or advanced to                             *)

Frame(fn, pc, d, t, f) ==
    [fn |-> fn, pc |-> pc, d |-> d, at |-> d, t |-> t, key |-> t, f |-> f,
     v |-> Invalid, kind |-> "", options |-> {}, outs |-> <<>>, i |-> 0,
     vals |-> <<>>, ok |-> FALSE, err |-> NoErr, adv |-> -1]

\* what a finished call hands to its caller
Result(val, vals, err) == [val |-> val, vals |-> vals, err |-> err]

Top(th) == th.stack[Len(th.stack)]
Pop(th) == [th EXCEPT !.stack = SubSeq(@, 1, Len(@) - 1)]
SetTop(th, fr) == [th EXCEPT !.stack[Len(th.stack)] = fr]
Push(th, fr) == [th EXCEPT !.stack = Append(@, fr)]

\* goroutine g is at statement pc of fn
At(g, fn, pc) ==
    /\ threads[g].stack # <<>>
    /\ Top(threads[g]).fn = fn
    /\ Top(threads[g]).pc = pc

\* the provider a provide frame runs, and the one a Provide frame has bound
Running(fr) == dis[fr.d].provide[fr.t]
Bound(fr) == dis[fr.d].provide[fr.key]

\* the head of the parameter loop of invoke
NextParam(fr) ==
    IF fr.i >= Len(FuncIn(fr.f))
    THEN [fr EXCEPT !.pc = "functionCall"]
    ELSE [fr EXCEPT !.pc = "getProvider", !.t = FuncIn(fr.f)[fr.i + 1], !.at = fr.d]

\* the frame of di.invoke(function)
InvokeFrame(d, function) == NextParam(Frame("invoke", "", d, "", function))

\* the frame of p.provide(d) for d's provider of t: the invoker's first statement
ProvideFrame(d, t) ==
    LET tag == dis[d].provide[t].invoker
    IN  Frame("provide",
              CASE tag = "ByValue" -> "value"
                [] tag = "ByValueRoundRobin" -> "roundRobin"
                [] OTHER -> "getCacheOrFunction",
              d, t, "")

\* the sequence a round-robin invoker indexes: iP.cache, or the local result
Sequence(fr) ==
    IF Running(fr).invoker = "ByValueRoundRobin" THEN Running(fr).cache ELSE fr.v

RECURSIVE Deliver(_, _)
RECURSIVE provideLoopFrom(_, _, _, _)

\* an invoker past getCacheOrFunction and setCache: the cursor, or return
CacheDone(th, fr) ==
    IF Running(fr).invoker = "ByFunctionValueRoundRobin"
    THEN [th |-> SetTop(th, [fr EXCEPT !.pc = "roundRobin"]), key |-> <<>>]
    ELSE Deliver(th, Result(fr.v, <<>>, NoErr))

\* the frame on top of th returns ret: the caller goes on to its next
\* statement that touches shared memory, or returns in turn.  key: the
\* provider invokeParam got a value from, if it did
Deliver(th, ret) ==
    IF IsPanic(ret.err)
    THEN [th |-> [th EXCEPT !.stack = <<>>, !.err = ret.err], key |-> <<>>]
    ELSE IF Len(th.stack) = 1
    THEN [th |-> [th EXCEPT !.stack = <<>>, !.err = ret.err], key |-> <<>>]
    ELSE LET fr == Top(Pop(th))
         IN  CASE fr.fn = "invoke" /\ fr.pc = "provide" ->
                    IF ret.err # NoErr
                    THEN Deliver(Pop(th), Result(Invalid, <<>>,
                             <<Layer("FailedToProvide", fr.i + 1, fr.t)>> \o ret.err))
                    ELSE [th |-> SetTop(Pop(th),
                                    NextParam([fr EXCEPT !.vals = Append(@, ret.val),
                                                         !.i = @ + 1])),
                          key |-> <<fr.at, fr.t>>]
               [] fr.fn = "invoke" /\ fr.pc = "body" ->
                    Deliver(Pop(th), Result(Invalid, Body(fr.f, fr.vals, 0, {}), NoErr))
               [] fr.fn = "provide" /\ fr.pc = "invoke" ->
                    IF ret.err # NoErr
                    THEN Deliver(Pop(th), Result(fr.v, <<>>, ret.err))
                    ELSE IF Running(fr).disableCache
                    THEN CacheDone(Pop(th),
                                   [fr EXCEPT !.v = ret.vals[Running(fr).functionParamIndex + 1]])
                    ELSE [th |-> SetTop(Pop(th),
                                    [fr EXCEPT !.v = ret.vals[Running(fr).functionParamIndex + 1],
                                               !.pc = "setCache"]),
                          key |-> <<>>]
               [] fr.fn = "Provide" /\ fr.pc = "eagerLoad" ->
                    IF ret.err # NoErr
                    THEN Deliver(Pop(th), Result(Invalid, <<>>,
                             <<Layer("EagerLoad", 0, fr.t)>> \o ret.err))
                    ELSE IF Bound(fr).useRoundRobin
                    THEN [th |-> SetTop(Pop(th), [fr EXCEPT !.pc = "rewind"]), key |-> <<>>]
                    ELSE provideLoopFrom(Pop(th), fr, fr.i + 1, TRUE)

\* the loop of provideFunction (one turn for a value) from result i, up to
\* the getProvider of canAddProvider; fr is the frame on top of th
provideLoopFrom(th, fr, i, provided) ==
    IF i >= Len(fr.outs)
    THEN Deliver(th, Result(Invalid, <<>>,
                     IF provided THEN NoErr ELSE <<Layer("NoReturnValues", 0, "")>>))
    ELSE IF isTypeErr(fr.outs[i + 1])
    THEN IF fr.kind = "value"
         THEN Deliver(th, Result(Invalid, <<>>, <<Layer("CantProvideValue", 0, fr.outs[i + 1])>>))
         ELSE provideLoopFrom(th, fr, i + 1, TRUE)
    ELSE [th |-> SetTop(th, [fr EXCEPT !.i = i, !.t = fr.outs[i + 1], !.at = fr.d,
                                       !.pc = "getProvider"]),
          key |-> <<>>]

\* the frame of d.Provide(arg, options...)
ProvideFrameOf(d, arg, options) ==
    [Frame("Provide", "", d, "", arg.f) EXCEPT
        !.v = arg.v, !.kind = arg.kind, !.options = options,
        !.outs = IF arg.kind = "func" THEN FuncOut(arg.f) ELSE <<arg.v.typ>>]

\* the provider a Provide frame makes for the result type at hand
NewProvider(fr) ==
    LET p == newProviderFromOptions(fr.options)
    IN  IF fr.kind = "func"
        THEN IF p.useRoundRobin
             THEN setStrategyByFunctionValueRoundRobin(p, fr.f, fr.i)
             ELSE setStrategyByFunctionValue(p, fr.f, fr.i)
        ELSE IF p.useRoundRobin
             THEN setStrategyByValueRoundRobin(p, fr.v)
             ELSE setStrategyByValue(p, fr.v)

\* goroutine g takes the step r = [th, key]
Step(g, r) ==
    /\ threads' = [threads EXCEPT ![g] = r.th]
    /\ nres' = IF r.key = <<>> THEN nres ELSE [nres EXCEPT ![r.key] = @ + 1]
    /\ UNCHANGED last

Goto(g, pc) == [th |-> SetTop(threads[g], [Top(threads[g]) EXCEPT !.pc = pc]), key |-> <<>>]

\* the calls started so far
Started == Sum([g \in Procs |-> threads[g].n])

Begun(th, op, arg, options) ==
    [th EXCEPT !.n = @ + 1, !.op = op, !.arg = arg, !.options = options,
               !.err = NoErr, !.vals = <<>>, !.picks = <<>>]

\* g calls d.Provide(arg, options...)
StartProvide(g, d, arg, options) ==
    /\ threads[g].stack = <<>>
    /\ Started < MaxOps
    /\ Step(g, provideLoopFrom(Push(Begun(threads[g], "Provide", arg, options),
                                    ProvideFrameOf(d, arg, options)),
                               ProvideFrameOf(d, arg, options), 0, FALSE))
    /\ UNCHANGED <<dis, ncalls, provideMutex, mutex>>

\* g calls d.Invoke(function)
StartInvoke(g, d, arg) ==
    /\ threads[g].stack = <<>>
    /\ Started < MaxOps
    /\ Step(g, IF arg.kind = "func"
               THEN [th |-> Push(Begun(threads[g], "Invoke", arg, {}),
                                 InvokeFrame(d, arg.f)),
                     key |-> <<>>]
               ELSE [th |-> [Begun(threads[g], "Invoke", arg, {}) EXCEPT
                                !.err = <<Layer("NonFunction", 0, "")>>],
                     key |-> <<>>])
    /\ UNCHANGED <<dis, ncalls, provideMutex, mutex>>

\* getProvider, RLock and the read of the map
GetProviderRLock(g) ==
    LET fr == Top(threads[g])
    IN  /\ threads[g].stack # <<>> /\ fr.pc = "getProvider"
        /\ CanRLock(provideMutex[fr.at])
        /\ provideMutex' = [provideMutex EXCEPT ![fr.at] = RLock(@, g)]
        /\ Step(g, [th |-> SetTop(threads[g],
                              [fr EXCEPT !.ok = fr.t \in DOMAIN dis[fr.at].provide,
                                         !.pc = "getProviderRUnlock"]),
                    key |-> <<>>])
        /\ UNCHANGED <<dis, ncalls, mutex>>

\* canAddProvider and provide*Value once getProvider has returned
CanAddProviderDone(th, fr) ==
    IF fr.ok
    THEN Deliver(th, Result(Invalid, <<>>, newErrorProviderAlreadyExists(fr.t)))
    ELSE IF "WithRoundRobin" \in fr.options
    THEN IF elementType(fr.t)[2]
         THEN [th |-> SetTop(th, [fr EXCEPT !.key = elementType(fr.t)[1],
                                            !.pc = "addProvider"]),
               key |-> <<>>]
         ELSE Deliver(th, Result(Invalid, <<>>, newErrorProviderCantRoundRobin(fr.t)))
    ELSE [th |-> SetTop(th, [fr EXCEPT !.key = fr.t, !.pc = "addProvider"]), key |-> <<>>]

\* invokeParam once getProvider has returned
InvokeParamFound(th, fr) ==
    IF ~fr.ok
    THEN IF dis[fr.at].parent # 0
         THEN [th |-> SetTop(th, [fr EXCEPT !.at = dis[fr.at].parent,
                                            !.pc = "getProvider"]),
               key |-> <<>>]
         ELSE Deliver(th, Result(Invalid, <<>>, errorProviderNotFound(fr.i, fr.t)))
    ELSE [th |-> Push(SetTop(th, [fr EXCEPT !.pc = "provide"]), ProvideFrame(fr.at, fr.t)),
          key |-> <<>>]

\* getProvider, RUnlock, and what its caller does with the answer
GetProviderRUnlock(g) ==
    LET fr == Top(threads[g])
    IN  /\ threads[g].stack # <<>> /\ fr.pc = "getProviderRUnlock"
        /\ provideMutex' = [provideMutex EXCEPT ![fr.at] = RUnlock(@, g)]
        /\ Step(g, IF fr.fn = "Provide" THEN CanAddProviderDone(threads[g], fr)
                   ELSE InvokeParamFound(threads[g], fr))
        /\ UNCHANGED <<dis, ncalls, mutex>>

\* addProvider, Lock is called
AddProviderLock(g) ==
    LET fr == Top(threads[g])
    IN  /\ At(g, "Provide", "addProvider")
        /\ provideMutex' = [provideMutex EXCEPT ![fr.d] = LockWait(@, g)]
        /\ Step(g, Goto(g, "addProviderLocked"))
        /\ UNCHANGED <<dis, ncalls, mutex>>

\* addProvider, Lock returns: the check and the insertion
AddProviderLocked(g) ==
    LET fr == Top(threads[g])
        r == addProvider([dis |-> dis], fr.d, fr.key, NewProvider(fr))
    IN  /\ At(g, "Provide", "addProviderLocked")
        /\ CanLock(provideMutex[fr.d])
        /\ provideMutex' = [provideMutex EXCEPT ![fr.d] = Lock(@, g)]
        /\ dis' = r.st.dis
        /\ Step(g, [th |-> SetTop(threads[g], [fr EXCEPT !.err = r.err,
                                                         !.pc = "addProviderUnlock"]),
                    key |-> <<>>])
        /\ UNCHANGED <<ncalls, mutex>>

\* provide*Value once addProvider has returned
AddProviderDone(th, fr) ==
    IF fr.err # NoErr THEN Deliver(th, Result(Invalid, <<>>, fr.err))
    ELSE IF fr.kind = "func" /\ "WithEagerLoading" \in fr.options
    THEN [th |-> Push(SetTop(th, [fr EXCEPT !.pc = "eagerLoad"]), ProvideFrame(fr.d, fr.key)),
          key |-> <<>>]
    ELSE provideLoopFrom(th, fr, fr.i + 1, TRUE)

\* addProvider, Unlock, and what provide*Value does next
AddProviderUnlock(g) ==
    LET fr == Top(threads[g])
    IN  /\ At(g, "Provide", "addProviderUnlock")
        /\ provideMutex' = [provideMutex EXCEPT ![fr.d] = Unlock(@, g)]
        /\ Step(g, AddProviderDone(threads[g], fr))
        /\ UNCHANGED <<dis, ncalls, mutex>>

\* the eager load has returned: p.roundRobinIndex--, the load
EagerRewindLoad(g) ==
    LET fr == Top(threads[g])
    IN  /\ At(g, "Provide", "rewind")
        /\ Step(g, [th |-> SetTop(threads[g], [fr EXCEPT !.adv = Bound(fr).roundRobinIndex,
                                                         !.pc = "rewindStore"]),
                    key |-> <<>>])
        /\ UNCHANGED <<dis, ncalls, provideMutex, mutex>>

\* p.roundRobinIndex--, the store
EagerRewindStore(g) ==
    LET fr == Top(threads[g])
    IN  /\ At(g, "Provide", "rewindStore")
        /\ dis' = [dis EXCEPT ![fr.d].provide[fr.key].roundRobinIndex = fr.adv - 1]
        /\ Step(g, provideLoopFrom(threads[g], fr, fr.i + 1, TRUE))
        /\ UNCHANGED <<ncalls, provideMutex, mutex>>

\* the invoker of setStrategyByValue
ProvideByValue(g) ==
    LET fr == Top(threads[g])
    IN  /\ At(g, "provide", "value")
        /\ Step(g, Deliver(threads[g], Result(Running(fr).cache, <<>>, NoErr)))
        /\ UNCHANGED <<dis, ncalls, provideMutex, mutex>>

\* a round-robin invoker, iP.mutex.Lock is called
RoundRobinLock(g) ==
    LET fr == Top(threads[g])
    IN  /\ At(g, "provide", "roundRobin")
        /\ mutex' = [mutex EXCEPT ![<<fr.d, fr.t>>] = LockWait(@, g)]
        /\ Step(g, Goto(g, "roundRobinLocked"))
        /\ UNCHANGED <<dis, ncalls, provideMutex>>

\* Lock returns; iP.roundRobinIndex++, the load
RoundRobinLocked(g) ==
    LET fr == Top(threads[g])
    IN  /\ At(g, "provide", "roundRobinLocked")
        /\ CanLock(mutex[<<fr.d, fr.t>>])
        /\ mutex' = [mutex EXCEPT ![<<fr.d, fr.t>>] = Lock(@, g)]
        /\ Step(g, [th |-> SetTop(threads[g], [fr EXCEPT !.adv = Running(fr).roundRobinIndex,
                                                         !.pc = "roundRobinStore"]),
                    key |-> <<>>])
        /\ UNCHANGED <<dis, ncalls, provideMutex>>

\* iP.roundRobinIndex++, the store
RoundRobinStore(g) ==
    LET fr == Top(threads[g])
    IN  /\ At(g, "provide", "roundRobinStore")
        /\ dis' = [dis EXCEPT ![fr.d].provide[fr.t].roundRobinIndex = fr.adv + 1]
        /\ Step(g, Goto(g, "roundRobinWrap"))
        /\ UNCHANGED <<ncalls, provideMutex, mutex>>

\* the cursor after the test against the length
Wrapped(index, len) == IF index >= len THEN 0 ELSE index

\* back to 0 at the length, and Unlock; adv: the cursor g leaves
RoundRobinWrap(g) ==
    LET fr == Top(threads[g])
        index == Wrapped(Running(fr).roundRobinIndex, Len(Sequence(fr).elems))
    IN  /\ At(g, "provide", "roundRobinWrap")
        /\ dis' = [dis EXCEPT ![fr.d].provide[fr.t].roundRobinIndex = index]
        /\ mutex' = [mutex EXCEPT ![<<fr.d, fr.t>>] = Unlock(@, g)]
        /\ Step(g, [th |-> SetTop(threads[g], [fr EXCEPT !.adv = index,
                                                         !.pc = "roundRobinIndex"]),
                    key |-> <<>>])
        /\ UNCHANGED <<ncalls, provideMutex>>

\* return Index(iP.roundRobinIndex): the cursor is read again, unlocked
RoundRobinIndex(g) ==
    LET fr == Top(threads[g])
        index == Running(fr).roundRobinIndex
        th == [threads[g] EXCEPT
                  !.picks = Append(@, <<fr.adv, index, Len(Sequence(fr).elems)>>)]
    IN  /\ At(g, "provide", "roundRobinIndex")
        /\ Step(g, IF index >= 0 /\ index < Len(Sequence(fr).elems)
                   THEN Deliver(th, Result(Index(Sequence(fr), index), <<>>, NoErr))
                   ELSE Deliver(th, Result(Invalid, <<>>, Panic)))
        /\ UNCHANGED <<dis, ncalls, provideMutex, mutex>>

\* getCacheOrFunction, RLock and the reads
GetCacheOrFunctionRLock(g) ==
    LET fr == Top(threads[g])
        cf == getCacheOrFunction(Running(fr))
    IN  /\ At(g, "provide", "getCacheOrFunction")
        /\ CanRLock(mutex[<<fr.d, fr.t>>])
        /\ mutex' = [mutex EXCEPT ![<<fr.d, fr.t>>] = RLock(@, g)]
        /\ Step(g, [th |-> SetTop(threads[g], [fr EXCEPT !.v = cf[1], !.f = cf[2],
                                                         !.pc = "getCacheOrFunctionRUnlock"]),
                    key |-> <<>>])
        /\ UNCHANGED <<dis, ncalls, provideMutex>>

\* a function invoker once getCacheOrFunction has returned
GotCacheOrFunction(th, fr) ==
    IF IsValid(fr.v) THEN CacheDone(th, fr)
    ELSE IF fr.f \notin Factories \cup Targets \cup Reentrant
    THEN Deliver(th, Result(fr.v, <<>>, <<Layer("NonFunction", 0, "")>>))
    ELSE [th |-> Push(SetTop(th, [fr EXCEPT !.pc = "invoke"]), InvokeFrame(fr.d, fr.f)),
          key |-> <<>>]

\* getCacheOrFunction, the deferred RUnlock, and what the invoker does next
GetCacheOrFunctionRUnlock(g) ==
    LET fr == Top(threads[g])
    IN  /\ At(g, "provide", "getCacheOrFunctionRUnlock")
        /\ mutex' = [mutex EXCEPT ![<<fr.d, fr.t>>] = RUnlock(@, g)]
        /\ Step(g, GotCacheOrFunction(threads[g], fr))
        /\ UNCHANGED <<dis, ncalls, provideMutex>>

\* setCache, Lock is called
SetCacheLock(g) ==
    LET fr == Top(threads[g])
    IN  /\ At(g, "provide", "setCache")
        /\ mutex' = [mutex EXCEPT ![<<fr.d, fr.t>>] = LockWait(@, g)]
        /\ Step(g, Goto(g, "setCacheLocked"))
        /\ UNCHANGED <<dis, ncalls, provideMutex>>

\* setCache, Lock returns: the two stores
SetCacheLocked(g) ==
    LET fr == Top(threads[g])
    IN  /\ At(g, "provide", "setCacheLocked")
        /\ CanLock(mutex[<<fr.d, fr.t>>])
        /\ mutex' = [mutex EXCEPT ![<<fr.d, fr.t>>] = Lock(@, g)]
        /\ dis' = [dis EXCEPT ![fr.d].provide[fr.t] = setCache(@, fr.v)]
        /\ Step(g, Goto(g, "setCacheUnlock"))
        /\ UNCHANGED <<ncalls, provideMutex>>

\* setCache, Unlock, and what the invoker does next
SetCacheUnlock(g) ==
    LET fr == Top(threads[g])
    IN  /\ At(g, "provide", "setCacheUnlock")
        /\ mutex' = [mutex EXCEPT ![<<fr.d, fr.t>>] = Unlock(@, g)]
        /\ Step(g, CacheDone(threads[g], fr))
        /\ UNCHANGED <<dis, ncalls, provideMutex>>

\* the value a function of Reentrant provides to its container
Provided(f) == ArgValue(StrV(1))

\* functionCall of a function whose body calls d.Provide: the body runs up
\* to the first statement of that Provide that touches shared memory
Reentered(th, fr) ==
    provideLoopFrom(Push(SetTop(th, [fr EXCEPT !.pc = "body"]),
                         ProvideFrameOf(fr.d, Provided(fr.f), {})),
                    ProvideFrameOf(fr.d, Provided(fr.f), {}), 0, FALSE)

\* the thread that has called the function given to Invoke with vals
Called(th, vals) ==
    IF Len(th.stack) = 1 /\ th.op = "Invoke" THEN [th EXCEPT !.vals = vals] ELSE th

\* functionCall: the body of the function runs
FunctionCall(g) ==
    LET fr == Top(threads[g])
        r == functionCall(Start(<<dis, ncalls, nres>>), fr.f, fr.vals, {})
    IN  /\ At(g, "invoke", "functionCall")
        /\ IF fr.f \in Reentrant
           THEN /\ Step(g, Reentered(Called(threads[g], fr.vals), fr))
                /\ UNCHANGED ncalls
           ELSE /\ Step(g, Deliver(Called(threads[g], fr.vals),
                                   Result(Invalid, r.vals, r.err)))
                /\ ncalls' = r.st.ncalls
        /\ UNCHANGED <<dis, provideMutex, mutex>>

\* SpecConc: goroutines that call Provide and Invoke on one container
ConcProvides ==
    {<<ArgValue(IntV(1)), {}>>, <<ArgValue(IntV(2)), {}>>,
     <<ArgValue(SeqV(0, 0)), {"WithRoundRobin"}>>,
     <<ArgValue(SeqV(0, MaxLen)), {"WithRoundRobin"}>>,
     <<ArgFunc("FInt"), {}>>,
     <<ArgFunc("FSeq"), {"WithEagerLoading", "WithRoundRobin"}>>,
     <<ArgFunc("FReg"), {}>>}
ConcTargets == {ArgFunc("TInt")}

\* the next statement of the call g is in
Run(g) ==
    \/ GetProviderRLock(g)
    \/ GetProviderRUnlock(g)
    \/ AddProviderLock(g)
    \/ AddProviderLocked(g)
    \/ AddProviderUnlock(g)
    \/ EagerRewindLoad(g)
    \/ EagerRewindStore(g)
    \/ ProvideByValue(g)
    \/ RoundRobinLock(g)
    \/ RoundRobinLocked(g)
    \/ RoundRobinStore(g)
    \/ RoundRobinWrap(g)
    \/ RoundRobinIndex(g)
    \/ GetCacheOrFunctionRLock(g)
    \/ GetCacheOrFunctionRUnlock(g)
    \/ SetCacheLock(g)
    \/ SetCacheLocked(g)
    \/ SetCacheUnlock(g)
    \/ FunctionCall(g)

NextConc ==
    \E g \in Procs :
        \/ \E a \in ConcProvides : StartProvide(g, 1, a[1], a[2])
        \/ \E arg \in ConcTargets : StartInvoke(g, 1, arg)
        \/ Run(g)

SpecConc == Init /\ [][NextConc]_vars

\* SpecConcLive: the same runs when every goroutine that can take a step
\* of its call eventually takes one
SpecConcLive == SpecConc /\ \A g \in Procs : WF_vars(Run(g))

-----------------------------------------------------------------------------
(* Reading the log of the last call.                                       *)

Log == last.log

IsFunctionProvider(p) == p.invoker \in {"ByFunctionValue", "ByFunctionValueRoundRobin"}
IsRoundRobinProvider(p) ==
    p.invoker \in {"ByValueRoundRobin", "ByFunctionValueRoundRobin"}

\* the "resolve" entries
Resolutions == {j \in 1..Len(Log) : Log[j].ev = "resolve"}

\* the successful resolution Log[j] is the k-th successful one of its provider
Ordinal(j) ==
    nres[<<Log[j].d, Log[j].t>>]
    - Cardinality({m \in Resolutions : m > j /\ Log[m].ok
                       /\ Log[m].d = Log[j].d /\ Log[m].t = Log[j].t})

\* the "lookup" entry that found the provider resolution Log[j] then asked
StartOf(j) ==
    LET starts == {l \in 1..(j - 1) :
                      /\ Log[l].ev = "lookup" /\ Log[l].ok
                      /\ Log[l].d = Log[j].d /\ Log[l].t = Log[j].t
                      /\ Log[l].n = Log[j].n}
    IN  CHOOSE l \in starts : \A m \in starts : m <= l

\* the runs of the provider's function made for resolution Log[j]
RunsIn(j) ==
    {k \in (StartOf(j) + 1)..(j - 1) : Log[k].ev = "call" /\ Log[k].n = Log[j].n + 1}

\* an earlier resolution in the same call succeeded on the same provider
ResolvedEarlier(j) ==
    \E m \in Resolutions :
        m < j /\ Log[m].ok /\ Log[m].d = Log[j].d /\ Log[m].t = Log[j].t

-----------------------------------------------------------------------------
\* C1: a round-robin provider over a sequence of length n >= 1 (a plain value
\* or the cached result of a factory) returns, at its k-th successful
\* resolution, the element at index (k - 1) mod n, within one Invoke and
\* across Invokes.
C1_RoundRobinOrder ==
    \A j \in Resolutions :
        LET p == dis[Log[j].d].provide[Log[j].t]
            n == Len(p.cache.elems)
        IN  (Log[j].ok /\ IsRoundRobinProvider(p) /\ ~(IsFunctionProvider(p) /\ p.disableCache))
            => /\ n >= 1
               /\ Log[j].v = Index(p.cache, (Ordinal(j) - 1) % n)

\* the third resolution of a cached factory sequence of length 2, made by a
\* later Invoke, is back at element 0
C1_Witness ==
    /\ last.op = "Invoke" /\ last.arg.f = "TInt" /\ last.called
    /\ LET p == dis[1].provide["int"]
       IN  /\ p.invoker = "ByFunctionValueRoundRobin" /\ ~p.disableCache
           /\ Len(p.cache.elems) = 2
           /\ nres[<<1, "int">>] = 3
           /\ last.vals = <<Index(p.cache, 0)>>

-----------------------------------------------------------------------------
\* the containers before the last call
Pre == last.pre

WasBound(d, t) == d \in 1..Len(Pre) /\ t \in DOMAIN Pre[d].provide

\* the provider of resolution Log[j] held a cached result before the call
WasResolved(j) ==
    /\ WasBound(Log[j].d, Log[j].t)
    /\ IsValid(Pre[Log[j].d].provide[Log[j].t].cache)

\* the result types the last Provide bound in its container
NewKeys == DOMAIN dis[last.d].provide \ DOMAIN Pre[last.d].provide

\* the runs of the provided function made by the last Provide itself
EagerCalls == {k \in 1..Len(Log) : Log[k].ev = "call" /\ Log[k].n = 1}

\* C2: a factory provider with caching runs its factory for the first
\* successful resolution only: every later resolution, in the same Invoke or
\* a later one, succeeds without a run and returns the cached value, which
\* never changes; with MultiInstance the provider never becomes resolved
\* (no cache, the factory kept) and every resolution runs the factory once.
C2_FactoryCache ==
    /\ \A d \in 1..Len(dis) : \A t \in DOMAIN dis[d].provide :
          LET p == dis[d].provide[t]
          IN  IsFunctionProvider(p) =>
                /\ p.disableCache => (~IsValid(p.cache) /\ p.function # "nil")
                /\ (WasBound(d, t) /\ IsValid(Pre[d].provide[t].cache))
                      => p.cache = Pre[d].provide[t].cache
    /\ \A j \in Resolutions :
          LET p == dis[Log[j].d].provide[Log[j].t]
              resolved == WasResolved(j) \/ ResolvedEarlier(j)
          IN  IsFunctionProvider(p) =>
                IF p.disableCache
                THEN Log[j].ok => Cardinality(RunsIn(j)) = 1
                ELSE /\ resolved => (Log[j].ok /\ RunsIn(j) = {})
                     /\ (Log[j].ok /\ ~resolved) => Cardinality(RunsIn(j)) = 1
                     /\ (Log[j].ok /\ ~IsRoundRobinProvider(p)) => Log[j].v = p.cache

\* a second Invoke gets the value the first one cached, the factory having
\* run once
C2_Witness ==
    /\ last.op = "Invoke" /\ last.arg.f = "TInt" /\ last.called
    /\ WasBound(1, "int") /\ IsValid(Pre[1].provide["int"].cache)
    /\ LET p == dis[1].provide["int"]
       IN  /\ p.invoker = "ByFunctionValue" /\ ~p.disableCache /\ ~p.eagerLoading
           /\ last.vals = <<p.cache>>
    /\ ncalls["FInt"] = 1
    /\ nres[<<1, "int">>] = 2

\* the runs of a function in the last call that returned a non-nil error
FailedCalls == {k \in 1..Len(Log) : Log[k].ev = "call" /\ ~Log[k].ok}

\* C6 as claimed: when a factory returns a non-nil error while a parameter
\* is resolved, Invoke returns exactly that error value and the target is
\* not called.
C6_Original ==
    \A k \in FailedCalls :
        last.op = "Invoke" => (last.err = ErrTest(Log[k].f) /\ ~last.called)

\* C6 amended: when a factory returns a non-nil error while a parameter is
\* resolved, Invoke fails and the target is not called; the error returned
\* wraps the factory's error value, which ends its chain, in one "failed to
\* provide parameter" layer per nesting level, the outermost naming the
\* position and type of the target's parameter.
C6_FactoryErrorWrapped ==
    \A k \in FailedCalls :
        last.op = "Invoke" =>
            /\ ~last.called
            /\ Len(last.err) = Log[k].n
            /\ Len(last.err) >= 2
            /\ last.err[Len(last.err)] = ErrTest(Log[k].f)[1]
            /\ \A m \in 1..(Len(last.err) - 1) : last.err[m].kind = "FailedToProvide"
            /\ last.err[1].pos \in 1..Len(FuncIn(last.arg.f))
            /\ FuncIn(last.arg.f)[last.err[1].pos] = last.err[1].typ

\* the factory of a factory's parameter fails: two layers around its error
C6_Witness ==
    /\ last.op = "Invoke" /\ last.arg.f = "TStrInt" /\ ~last.called
    /\ last.err = <<Layer("FailedToProvide", 1, "string"),
                    Layer("FailedToProvide", 1, "int")>> \o ErrTest("FInt")

\* C7: Provide of a factory with EagerLoading runs the factory during
\* Provide, once for every provider it binds; when that run returns a
\* non-nil error, Provide fails with an error that wraps it; when it
\* succeeds and caching is enabled the provider is left resolved and no
\* later resolution runs the factory again.
C7_EagerLoading ==
    /\ (last.op = "Provide" /\ last.arg.kind = "func"
            /\ "WithEagerLoading" \in last.options) =>
          /\ last.err = NoErr =>
                /\ Cardinality(EagerCalls) = Cardinality(NewKeys)
                /\ \A k \in EagerCalls : Log[k].f = last.arg.f /\ Log[k].ok
                /\ \A t \in NewKeys :
                      LET p == dis[last.d].provide[t]
                      IN  ~p.disableCache => (IsValid(p.cache) /\ p.function = "nil")
          /\ \A k \in EagerCalls :
                ~Log[k].ok =>
                    /\ Len(last.err) = 2
                    /\ last.err[1].kind = "EagerLoad"
                    /\ last.err[2] = ErrTest(last.arg.f)[1]
    /\ \A j \in Resolutions :
          LET p == dis[Log[j].d].provide[Log[j].t]
          IN  (IsFunctionProvider(p) /\ p.eagerLoading /\ ~p.disableCache
                  /\ WasResolved(j))
              => (Log[j].ok /\ RunsIn(j) = {})

\* the first Invoke after an eager Provide finds the value loaded: the
\* factory has run once, and not in this Invoke
C7_Witness ==
    /\ last.op = "Invoke" /\ last.arg.f = "TInt" /\ last.called
    /\ WasBound(1, "int")
    /\ LET p == dis[1].provide["int"]
       IN  /\ p.invoker = "ByFunctionValue" /\ p.eagerLoading /\ ~p.disableCache
           /\ last.vals = <<p.cache>>
    /\ \A k \in 1..Len(Log) : Log[k].ev = "call" => Log[k].f = "TInt"
    /\ ncalls["FInt"] = 1
    /\ nres[<<1, "int">>] = 1

\* the sequence resolution Log[j] of a round-robin factory provider took
\* its element from: the cache, or with MultiInstance the result of its run
SequenceOf(j) ==
    LET p == dis[Log[j].d].provide[Log[j].t]
    IN  IF p.disableCache
        THEN LET k == CHOOSE k \in RunsIn(j) : TRUE
             IN  Body(p.function, <<>>, Log[k].i, {})[p.functionParamIndex + 1]
        ELSE p.cache

\* C8: eager loading does not use up a rotation slot: after a successful
\* Provide of a factory with EagerLoading and RoundRobin the cursor is -1,
\* and the k-th resolution made by later Invokes returns element
\* (k - 1) mod n, the first one element 0.
C8_EagerKeepsSlot ==
    /\ (last.op = "Provide" /\ last.arg.kind = "func" /\ last.err = NoErr
            /\ {"WithEagerLoading", "WithRoundRobin"} \subseteq last.options) =>
          \A t \in NewKeys : dis[last.d].provide[t].roundRobinIndex = -1
    /\ \A j \in Resolutions :
          LET p == dis[Log[j].d].provide[Log[j].t]
          IN  (Log[j].ok /\ p.invoker = "ByFunctionValueRoundRobin" /\ p.eagerLoading)
              => Log[j].v = Index(SequenceOf(j),
                                  (Ordinal(j) - 1) % Len(SequenceOf(j).elems))

\* the first resolution after the eager load returns element 0
C8_Witness ==
    /\ last.op = "Invoke" /\ last.arg.f = "TInt" /\ last.called
    /\ WasBound(1, "int") /\ IsValid(Pre[1].provide["int"].cache)
    /\ LET p == dis[1].provide["int"]
       IN  /\ p.invoker = "ByFunctionValueRoundRobin" /\ p.eagerLoading
           /\ ~p.disableCache
           /\ Pre[1].provide["int"].roundRobinIndex = -1
           /\ last.vals = <<Index(p.cache, 0)>>
    /\ nres[<<1, "int">>] = 1
    /\ ncalls["FSeq"] = 1

-----------------------------------------------------------------------------
\* the type of the value given to the last Provide, or of the first result
\* of the function given to it that is not of type error ("" if none)
FirstType ==
    IF last.arg.kind = "value" THEN last.arg.v.typ
    ELSE LET outs == FuncOut(last.arg.f)
             ks == {k \in 1..Len(outs) : ~isTypeErr(outs[k])}
         IN  IF ks = {} THEN ""
             ELSE outs[CHOOSE k \in ks : \A m \in ks : k <= m]

\* the type the last Provide binds FirstType under
FirstKey ==
    IF "WithRoundRobin" \in last.options THEN elementType(FirstType)[1] ELSE FirstType

\* the same binding: the provider may have loaded or advanced, no more
SameBinding(p, q) ==
    /\ p.invoker = q.invoker
    /\ p.functionParamIndex = q.functionParamIndex
    /\ p.eagerLoading = q.eagerLoading
    /\ p.disableCache = q.disableCache
    /\ p.useRoundRobin = q.useRoundRobin
    /\ (IsFunctionProvider(p) \/ p.cache = q.cache)

\* C3: Provide of a type that is bound in the same container fails with the
\* "already exists" error and the container's bindings stay as they were;
\* no Provide replaces or removes a binding; an "already exists" error
\* always names a type bound in the container itself, so that a value whose
\* type is bound only in an ancestor is provided to the child without error.
C3_DuplicateProvider ==
    last.op = "Provide" =>
        LET own == Pre[last.d].provide
            now == dis[last.d].provide
        IN  /\ \A t \in DOMAIN own : t \in DOMAIN now /\ SameBinding(now[t], own[t])
            /\ (FirstType # "" /\ (FirstType \in DOMAIN own \/ FirstKey \in DOMAIN own))
                  => /\ last.err # NoErr
                     /\ last.err[1].kind = "AlreadyExists"
                     /\ last.err[1].typ \in {FirstType, FirstKey} \cap DOMAIN own
                     /\ dis = Pre
            /\ (last.err # NoErr /\ last.err[1].kind = "AlreadyExists")
                  => /\ last.err[1].typ \in DOMAIN now
                     /\ last.err[1].typ \in DOMAIN own
                           => now[last.err[1].typ] = own[last.err[1].typ]
            /\ (last.arg.kind = "value" /\ "WithRoundRobin" \notin last.options
                    /\ FirstType \notin DOMAIN own)
                  => (last.err = NoErr /\ FirstType \in DOMAIN now)

\* a value of a type that a factory already provides in the same container
\* is refused and the factory's provider stays
C3_Witness ==
    /\ last.op = "Provide" /\ last.arg = ArgValue(IntV(1)) /\ last.options = {}
    /\ last.err = newErrorProviderAlreadyExists("int")
    /\ "int" \in DOMAIN Pre[last.d].provide
    /\ dis[last.d].provide["int"].invoker = "ByFunctionValue"
    /\ dis = Pre

C10_Claim ==
    (last.op = "Provide" /\ FirstType # "" /\ elementType(FirstType)[2]
        /\ "WithRoundRobin" \in last.options
        /\ "WithEagerLoading" \notin last.options
        /\ Len(FuncOut(last.arg.f)) <= 2
        /\ (last.arg.kind = "func" => FuncOut(last.arg.f)[Len(FuncOut(last.arg.f))] = "error"))
    => LET own == Pre[last.d].provide
           now == dis[last.d].provide
       IN  /\ last.err = NoErr <=> FirstKey \notin DOMAIN own
           /\ last.err = NoErr => FirstKey \in DOMAIN now
           /\ FirstType \in DOMAIN now <=> FirstType \in DOMAIN own

-----------------------------------------------------------------------------
\* the function given to the last Invoke and its parameter types
Target == last.arg.f
TargetIn == FuncIn(Target)

\* parameter k of the target was reached: the ones before it were resolved
Attempted(k) ==
    \A m \in 1..(k - 1) :
        \E j \in Resolutions : Log[j].n = 1 /\ Log[j].i = m /\ Log[j].ok

\* the containers from d up to the first that binds t, or up to the root
RECURSIVE PathTo(_, _)
PathTo(d, t) ==
    IF d = 0 THEN <<>>
    ELSE IF t \in DOMAIN dis[d].provide THEN <<d>>
    ELSE <<d>> \o PathTo(dis[d].parent, t)

IsLookupOf(e, k) == e.ev = "lookup" /\ e.n = 1 /\ e.i = k

\* the containers asked for parameter k of the target, in the order asked
LookedUp(k) ==
    LET es == SelectSeq(Log, LAMBDA e : IsLookupOf(e, k))
    IN  [m \in 1..Len(es) |-> es[m].d]

\* C4: each parameter of a function invoked on a container is looked up in
\* that container's own map first and on a miss in its parent's, up the
\* whole chain, and is resolved by the provider of the nearest container
\* that binds its type: the child's own where both bind it.
C4_ChainLookup ==
    (last.op = "Invoke" /\ last.arg.kind = "func") =>
        \A k \in 1..Len(TargetIn) :
            Attempted(k) =>
                LET t == TargetIn[k]
                    o == Owner(dis, last.d, t)
                IN  /\ LookedUp(k) = PathTo(last.d, t)
                    /\ o # 0 =>
                          \E j \in Resolutions :
                              /\ Log[j].n = 1 /\ Log[j].i = k
                              /\ Log[j].d = o /\ Log[j].t = t
                              /\ dis[o].provide[t].invoker = "ByValue"
                                    => (Log[j].ok /\ Log[j].v = dis[o].provide[t].cache)
                    /\ \A j \in Resolutions :
                          (Log[j].n = 1 /\ Log[j].i = k) => Log[j].d = o

\* a chain of three: int is bound in the grandchild and in the root, string
\* in the root alone; the grandchild's Invoke gets its own int and the
\* root's string
C4_Witness ==
    /\ last.op = "Invoke" /\ Target = "TIntStr" /\ last.called
    /\ Len(dis) = 3 /\ last.d = 3 /\ dis[3].parent = 2 /\ dis[2].parent = 1
    /\ DOMAIN dis[3].provide = {"*DI", "int"}
    /\ DOMAIN dis[2].provide = {"*DI"}
    /\ DOMAIN dis[1].provide = {"*DI", "int", "string"}
    /\ dis[3].provide["int"].cache = IntV(2)
    /\ dis[1].provide["int"].cache = IntV(1)
    /\ last.vals[1] = IntV(2)
    /\ LookedUp(2) = <<3, 2, 1>>

\* C5: Invoke of a function with a parameter whose type is bound neither in
\* the container nor in any ancestor fails and does not call the function;
\* the error of the first such parameter reached is the "not found" error
\* with the parameter's position counted from 1 and its type.
C5_ProviderNotFound ==
    (last.op = "Invoke" /\ last.arg.kind = "func") =>
        \A k \in 1..Len(TargetIn) :
            Owner(dis, last.d, TargetIn[k]) = 0 =>
                /\ last.err # NoErr
                /\ ~last.called
                /\ Attempted(k) => last.err = <<Layer("NotFound", k, TargetIn[k])>>

\* the second parameter has no provider anywhere in a chain of three
C5_Witness ==
    /\ last.op = "Invoke" /\ Target = "TIntStr" /\ ~last.called
    /\ Len(dis) = 3 /\ last.d = 3 /\ dis[3].parent = 2 /\ dis[2].parent = 1
    /\ Owner(dis, 3, "int") = 1
    /\ last.err = <<Layer("NotFound", 2, "string")>>
    /\ LookedUp(2) = <<3, 2, 1>>

-----------------------------------------------------------------------------
\* C11: a run of a provider's factory that returns a non-nil error leaves
\* the provider as it was before the call: the cache empty, the factory
\* kept, the cursor where it was (-1 for a provider just bound by an eager
\* Provide); the next resolution of an unresolved provider runs the factory
\* again.
C11_FailureLeavesUnresolved ==
    /\ \A j \in Resolutions :
          LET p == dis[Log[j].d].provide[Log[j].t]
          IN  (IsFunctionProvider(p) /\ ~Log[j].ok /\ \E k \in RunsIn(j) : ~Log[k].ok)
              => /\ ~IsValid(p.cache)
                 /\ p.function # "nil"
                 /\ WasBound(Log[j].d, Log[j].t)
                 /\ p = Pre[Log[j].d].provide[Log[j].t]
    /\ (last.op = "Provide" /\ \E k \in EagerCalls : ~Log[k].ok) =>
          \A t \in NewKeys :
              LET p == dis[last.d].provide[t]
              IN  /\ ~IsValid(p.cache)
                  /\ p.function = last.arg.f
                  /\ IsRoundRobinProvider(p) => p.roundRobinIndex = -1
    /\ \A j \in Resolutions :
          (/\ WasBound(Log[j].d, Log[j].t)
           /\ IsFunctionProvider(Pre[Log[j].d].provide[Log[j].t])
           /\ ~WasResolved(j) /\ ~ResolvedEarlier(j)
           /\ FuncIn(Pre[Log[j].d].provide[Log[j].t].function) = <<>>)
          => /\ Cardinality(RunsIn(j)) = 1
             /\ \A k \in RunsIn(j) : Log[k].f = Pre[Log[j].d].provide[Log[j].t].function

\* the factory failed in an earlier Invoke and ran again in this one: two
\* runs, one successful resolution, the value of the second run cached
C11_Witness ==
    /\ last.op = "Invoke" /\ last.arg.f = "TInt" /\ last.called
    /\ WasBound(1, "int") /\ ~IsValid(Pre[1].provide["int"].cache)
    /\ LET p == dis[1].provide["int"]
       IN  /\ p.invoker = "ByFunctionValue" /\ ~p.disableCache /\ ~p.eagerLoading
           /\ p.cache = IntV(2)
    /\ ncalls["FInt"] = 2
    /\ nres[<<1, "int">>] = 1

-----------------------------------------------------------------------------
(* Concurrent runs (SpecConc).                                             *)

\* the providers bound in the containers
BoundKeys == {k \in (1..Len(dis)) \X Types : k[2] \in DOMAIN dis[k[1]].provide}

\* the goroutines whose last call has returned
Returned(op) == {g \in Procs : threads[g].stack = <<>> /\ threads[g].op = op}

\* a step changes the cache, the function or the cursor of the provider k
Mutates(k) ==
    LET p == dis[k[1]].provide[k[2]]
        q == dis'[k[1]].provide[k[2]]
    IN  \/ q.cache # p.cache
        \/ q.function # p.function
        \/ q.roundRobinIndex # p.roundRobinIndex

\* the goroutine that takes a step holds the lock of provider k for writing
\* during it
WriteLocked(k) ==
    \E g \in Procs :
        /\ threads'[g] # threads[g]
        /\ mutex[k].writer = g \/ mutex'[k].writer = g

\* C12 as claimed: every step that changes the cache, the function or the
\* cursor of a provider bound in a container's map is taken by a goroutine
\* that holds the provider's lock for writing.
C12_Claim == [][\A k \in BoundKeys : Mutates(k) => WriteLocked(k)]_vars

\* the parameter the function given to g's last Invoke was called with
Got(g) == threads[g].vals[1]

\* the elements of a sequence
Elements(seq) == {Index(seq, i) : i \in 0..(Len(seq.elems) - 1)}

\* C13 as claimed: every round-robin resolution returns the element at the
\* cursor position it advanced to itself; when n goroutines have each made
\* one resolution of a fresh provider over a sequence of n distinct
\* elements, every element was returned once.
C13_Claim ==
    /\ \A g \in Procs : \A m \in 1..Len(threads[g].picks) :
          threads[g].picks[m][2] = threads[g].picks[m][1]
    /\ \A k \in BoundKeys :
          LET p == dis[k[1]].provide[k[2]]
              done == {g \in Returned("Invoke") : threads[g].err = NoErr}
          IN  (/\ p.invoker = "ByValueRoundRobin"
               /\ \A g \in Procs : threads[g].stack = <<>>
               /\ nres[k] = Len(p.cache.elems)
               /\ Cardinality(done) = Len(p.cache.elems))
              => {Got(g) : g \in done} = Elements(p.cache)

\* the type a Provide of arg with options binds its first result under
KeyOf(arg, options) ==
    LET t == IF arg.kind = "value" THEN arg.v.typ ELSE FuncOut(arg.f)[1]
    IN  IF "WithRoundRobin" \in options THEN elementType(t)[1] ELSE t

\* g's last call was a Provide that has returned "already exists"
Refused(g) ==
    /\ g \in Returned("Provide")
    /\ threads[g].err # NoErr
    /\ threads[g].err[1].kind = "AlreadyExists"

\* g's last call was a Provide that has returned and has bound its provider
Inserted(g) == g \in Returned("Provide") /\ ~Refused(g)

\* p is the provider a Provide of arg with options makes
MadeBy(p, arg, options) ==
    LET q == newProviderFromOptions(options)
    IN  /\ p.eagerLoading = q.eagerLoading
        /\ p.disableCache = q.disableCache
        /\ p.useRoundRobin = q.useRoundRobin
        /\ IF arg.kind = "value"
           THEN p.cache = arg.v /\ ~IsFunctionProvider(p)
           ELSE IsFunctionProvider(p) /\ p.function \in {arg.f, "nil"}

\* C14: of the Provide calls goroutines make for one type of one container,
\* concurrently or one after the other, one binds its provider and every
\* other returns the "already exists" error for a type that is bound; the
\* map holds the provider of the call that bound it, and no step replaces
\* or removes a provider of the map.
C14_OneWinner ==
    /\ [](\A g \in Returned("Provide") :
            LET key == KeyOf(threads[g].arg, threads[g].options)
            IN  /\ key \in DOMAIN dis[1].provide
                /\ Refused(g) => threads[g].err[1].typ \in DOMAIN dis[1].provide
                /\ Inserted(g) =>
                      /\ MadeBy(dis[1].provide[key], threads[g].arg, threads[g].options)
                      /\ \A h \in Returned("Provide") \ {g} :
                            KeyOf(threads[h].arg, threads[h].options) = key => Refused(h))
    /\ [][\A k \in BoundKeys :
            /\ k[2] \in DOMAIN dis'[k[1]].provide
            /\ SameBinding(dis'[k[1]].provide[k[2]], dis[k[1]].provide[k[2]])]_vars

\* both goroutines found int unbound in canAddProvider; the second to reach
\* the insertion of addProvider is refused there and the first one's value
\* stays bound
C14_Witness ==
    /\ At(1, "Provide", "addProviderUnlock")
    /\ Top(threads[1]).err = newErrorProviderAlreadyExists("int")
    /\ threads[1].arg = ArgValue(IntV(1))
    /\ Inserted(2) /\ threads[2].arg = ArgValue(IntV(2)) /\ threads[2].err = NoErr
    /\ threads[2].n = 1
    /\ dis[1].provide["int"].cache = IntV(2)

\* C15 as claimed: the factory of a provider with caching runs at most
\* once, however many goroutines resolve the provider for the first time,
\* and every Invoke that has returned got the cached value.
C15_Claim ==
    \A k \in BoundKeys :
        LET p == dis[k[1]].provide[k[2]]
        IN  (p.invoker = "ByFunctionValue" /\ ~p.disableCache
                /\ p.function \in {"FInt", "nil"})
            => /\ ncalls["FInt"] <= 1
               /\ \A g \in Returned("Invoke") :
                     (threads[g].err = NoErr /\ IsValid(p.cache)) => Got(g) = p.cache

\* g holds one of the locks, or is blocked in one
HoldsAny(g) ==
    \/ \E d \in 1..Len(dis) : Holds(provideMutex[d], g)
    \/ \E k \in BoundKeys : Holds(mutex[k], g)

\* C16: a goroutine about to run the body of a factory or of the function
\* given to Invoke holds no map lock and no provider lock, and every call
\* of Provide and Invoke a goroutine is in comes to its end, whatever the
\* other goroutines do, also when the body of a factory calls Provide on
\* the container it runs for.
C16_NoLockNoDeadlock ==
    /\ [](\A g \in Procs : At(g, "invoke", "functionCall") => ~HoldsAny(g))
    /\ \A g \in Procs : (threads[g].stack # <<>>) ~> (threads[g].stack = <<>>)

\* goroutine 1 resolves int, runs the factory for it, and the Provide called
\* by the body of the factory is blocked in the Lock of addProvider while
\* goroutine 2 holds the map for reading
C16_Witness ==
    /\ Len(threads[1].stack) = 4
    /\ threads[1].stack[3].fn = "invoke" /\ threads[1].stack[3].pc = "body"
    /\ threads[1].stack[3].f \in Reentrant
    /\ At(1, "Provide", "addProviderLocked")
    /\ 1 \in provideMutex[1].waiting
    /\ 2 \in provideMutex[1].readers

-----------------------------------------------------------------------------
\* C17 as claimed: a Provide that returns an error leaves the map of its
\* container as it was before the call.
C17_Claim ==
    (last.op = "Provide" /\ last.err # NoErr) =>
        dis[last.d].provide = Pre[last.d].provide

-----------------------------------------------------------------------------
\* the entries of the log about the parameters of the target itself
OfTarget == {j \in 1..Len(Log) : Log[j].n = 1 /\ Log[j].ev \in {"lookup", "resolve"}}

\* the providers that were found by a lookup of the last call
Touched == {<<Log[j].d, Log[j].t>> : j \in {l \in 1..Len(Log) : Log[l].ev = "lookup" /\ Log[l].ok}}

\* the last call failed for a parameter of its target
FailedParam ==
    /\ last.op = "Invoke" /\ last.arg.kind = "func"
    /\ last.err # NoErr
    /\ last.err[1].kind \in {"NotFound", "FailedToProvide"}

\* C18: the parameters of the function given to Invoke are asked for from
\* left to right; when parameter N fails, the error names N (from 1) and
\* its type, the parameters before N were resolved, nothing was asked for a
\* parameter after N, the function was not called, and no provider other
\* than those found while the parameters up to N were resolved has changed.
C18_LeftToRight ==
    /\ \A j \in OfTarget : \A m \in OfTarget : j < m => Log[j].i <= Log[m].i
    /\ last.called =>
          \A k \in 1..Len(TargetIn) :
              \E j \in OfTarget : Log[j].ev = "resolve" /\ Log[j].i = k /\ Log[j].ok
    /\ FailedParam =>
          LET N == last.err[1].pos
          IN  /\ N \in 1..Len(TargetIn)
              /\ last.err[1].typ = TargetIn[N]
              /\ ~last.called
              /\ \A j \in 1..Len(Log) : ~(Log[j].ev = "call" /\ Log[j].f = Target)
              /\ Attempted(N)
              /\ \A j \in OfTarget : Log[j].i <= N
              /\ Log[Len(Log)].n = 1 /\ Log[Len(Log)].i = N /\ ~Log[Len(Log)].ok
              /\ \A d \in 1..Len(dis) : \A t \in DOMAIN dis[d].provide :
                    dis[d].provide[t] # Pre[d].provide[t] => <<d, t>> \in Touched

\* the first of two parameters has no provider; the second has a
\* round-robin provider whose cursor stays where the one earlier resolution
\* left it
C18_Witness ==
    /\ FailedParam /\ Target = "TStrInt"
    /\ last.err = <<Layer("NotFound", 1, "string")>>
    /\ "int" \in DOMAIN dis[1].provide
    /\ dis[1].provide["int"].invoker = "ByValueRoundRobin"
    /\ dis[1].provide["int"].roundRobinIndex = 0
    /\ nres[<<1, "int">>] = 1
    /\ dis = Pre

-----------------------------------------------------------------------------
\* d and its ancestors
RECURSIVE Chain(_)
Chain(d) == IF d = 0 THEN {} ELSE {d} \cup Chain(dis[d].parent)

\* the lookups made for the parameters of the factory run for resolution Log[j]
NestedLookups(j) ==
    {l \in (StartOf(j) + 1)..(j - 1) : Log[l].ev = "lookup" /\ Log[l].n = Log[j].n + 1}

\* the containers asked for parameter k of that factory, in the order asked
NestedLookedUp(j, k) ==
    LET ls == NestedLookups(j)
        es == SelectSeq([l \in 1..Len(Log) |-> [e |-> Log[l], in |-> l \in ls]],
                        LAMBDA x : x.in /\ x.e.i = k)
    IN  [m \in 1..Len(es) |-> es[m].e.d]

\* C19: the parameters of a factory are looked up from the container that
\* owns the factory's provider upwards, whichever descendant the Invoke was
\* made on: a type bound only below the owner has no provider for the
\* factory; and an Invoke changes the map of no container.
C19_OwnerResolves ==
    last.op = "Invoke" =>
        /\ \A j \in Resolutions :
              LET p == dis[Log[j].d].provide[Log[j].t]
                  f == Pre[Log[j].d].provide[Log[j].t].function
              IN  (IsFunctionProvider(p) /\ ~WasResolved(j) /\ ~ResolvedEarlier(j)) =>
                      /\ \A l \in NestedLookups(j) : Log[l].d \in Chain(Log[j].d)
                      /\ \A k \in 1..Len(FuncIn(f)) :
                            (\A m \in 1..(k - 1) : Owner(dis, Log[j].d, FuncIn(f)[m]) # 0)
                            => NestedLookedUp(j, k) = PathTo(Log[j].d, FuncIn(f)[k])
                      /\ (\E k \in 1..Len(FuncIn(f)) : Owner(dis, Log[j].d, FuncIn(f)[k]) = 0)
                            => ~Log[j].ok
        /\ \A d \in 1..Len(dis) : DOMAIN dis[d].provide = DOMAIN Pre[d].provide

\* the factory of string is bound in the root, int in the child alone: an
\* Invoke on the child finds the factory in the root and fails, the root
\* having no provider of int
C19_Witness ==
    /\ last.op = "Invoke" /\ Target = "TStr" /\ ~last.called /\ last.d = 2
    /\ dis[2].parent = 1
    /\ "string" \in DOMAIN dis[1].provide /\ "string" \notin DOMAIN dis[2].provide
    /\ dis[1].provide["string"].function = "FStr"
    /\ "int" \in DOMAIN dis[2].provide /\ "int" \notin DOMAIN dis[1].provide
    /\ last.err = <<Layer("FailedToProvide", 1, "string"), Layer("NotFound", 1, "int")>>
    /\ LookedUp(1) = <<2, 1>>

-----------------------------------------------------------------------------
\* the sequence of a round-robin provider, once it is known
Known(p) == p.invoker = "ByValueRoundRobin" \/ IsValid(p.cache)

\* C20 as claimed: the cursor of a round-robin provider over a sequence of
\* length n is in -1..n-1 whenever no goroutine holds the provider's lock
\* for writing, and every round-robin resolution indexes the sequence at
\* an i with 0 <= i < n.
C20_Claim ==
    /\ \A k \in BoundKeys :
          LET p == dis[k[1]].provide[k[2]]
          IN  (IsRoundRobinProvider(p) /\ Known(p) /\ mutex[k].writer = 0)
              => p.roundRobinIndex \in -1..(Len(p.cache.elems) - 1)
    /\ \A g \in Procs : \A m \in 1..Len(threads[g].picks) :
          threads[g].picks[m][2] \in 0..(threads[g].picks[m][3] - 1)

====
